---------------------------- MODULE Spec2Model ----------------------------
(***************************************************************************)
(* The video ingestion pipeline of the media-upload backend:               *)
(* handlerUploadVideo with getVideoAspectRatio, processVideoForFastStart   *)
(* and dbVideoToSignedVideo (src/handler_upload_video.go), run by several  *)
(* concurrent requests against one record store, one object store and one  *)
(* filesystem.                                                             *)
(*                                                                         *)
(* Strings that the code builds or takes apart (object keys, composite     *)
(* references, file paths, signed URLs) are sequences of string pieces, so *)
(* that fmt.Sprintf is concatenation and strings.Split is a real split.    *)
(* A *string is a sequence of length 0 (nil) or 1 (a pointer to a string). *)
(***************************************************************************)
EXTENDS Integers, Sequences, FiniteSets, TLC

(***************************************************************************)
(* Bounds of the model.                                                    *)
(***************************************************************************)
NumReqs == 2
NumUsers == 2
NumTempNames == 2
NumTokens == 2
MaxStreams == 2

(***************************************************************************)
(* Program constants.                                                      *)
(***************************************************************************)
\* float64EqualityThreshold = 1e-3, kept as the denominator of 1/1000
ThresholdDen == 1000
\* 15*time.Minute, the validity of a presigned URL
PresignMinutes == 15
\* make([]byte, 32), the random bytes of an identifier
RawIDLen == 32

StatusOK == 200
StatusBadRequest == 400
StatusUnauthorized == 401
StatusNotFound == 404
StatusInternalServerError == 500

Reqs == 1..NumReqs
Users == 1..NumUsers

Nil == <<>>
Ptr(s) == <<s>>
Deref(p) == p[1]

Abs(x) == IF x < 0 THEN -x ELSE x

(***************************************************************************)
(* cfg and the request inputs.                                             *)
(***************************************************************************)
\* cfg.s3Bucket
s3Bucket == <<"tubely-bucket">>

\* The record store before any upload: one VideoRecord, created by a
\* collaborator, owned by user 1 and without a stored object or thumbnail.
InitialVideos ==
    {[ID |-> 1, UserID |-> 1, VideoURL |-> Nil, ThumbnailURL |-> Nil]}

\* r.PathValue("videoID"): 0 is a string that is no UUID, 1 the UUID of the
\* record, 2 a well-formed UUID of no record.
PathValues == {0, 1, 2}

\* The Authorization header: absent, or a bearer token whose subject is a
\* user, or (subject 0) a token that fails validation.
AuthHeaders == [present : BOOLEAN, subject : {0} \cup Users]

\* The Content-Type of the multipart part named "video".
ContentTypes ==
    {"video/mp4", "Video/MP4", "video/mp4; codecs=avc1", "video/mp4; codecs",
     "video/quicktime", "image/png", ""}

\* The names os.CreateTemp can draw for the "*" of its pattern.
TempNameTable == <<"tmpA", "tmpB", "tmpC", "tmpD">>
TempNames == {TempNameTable[i] : i \in 1..NumTempNames}

\* What rand.Read can put into the RawIDLen bytes of rawVideoID.
RandomBytesTable ==
    <<[i \in 1..RawIDLen |-> 0],
      [i \in 1..RawIDLen |-> 255],
      [i \in 1..RawIDLen |-> (i * 37) % 256],
      [i \in 1..RawIDLen |-> (251 - (i * 7)) % 256]>>

\* base64.RawURLEncoding: the URL-safe alphabet, no padding
encodeURL ==
    <<"A", "B", "C", "D", "E", "F", "G", "H", "I", "J", "K", "L", "M",
      "N", "O", "P", "Q", "R", "S", "T", "U", "V", "W", "X", "Y", "Z",
      "a", "b", "c", "d", "e", "f", "g", "h", "i", "j", "k", "l", "m",
      "n", "o", "p", "q", "r", "s", "t", "u", "v", "w", "x", "y", "z",
      "0", "1", "2", "3", "4", "5", "6", "7", "8", "9", "-", "_">>

\* mutant: base64.URLEncoding, which pads the last group with "="
RECURSIVE URLEncode(_)
URLEncode(src) ==
    IF Len(src) = 0 THEN ""
    ELSE LET b2 == IF Len(src) > 1 THEN src[2] ELSE 0
             b3 == IF Len(src) > 2 THEN src[3] ELSE 0
             val == (src[1] * 65536) + (b2 * 256) + b3
         IN  encodeURL[(val \div 262144) + 1]
                \o encodeURL[((val \div 4096) % 64) + 1]
                \o (IF Len(src) > 1 THEN encodeURL[((val \div 64) % 64) + 1] ELSE "=")
                \o (IF Len(src) > 2 THEN encodeURL[(val % 64) + 1] ELSE "=")
                \o (IF Len(src) > 3 THEN URLEncode(SubSeq(src, 4, Len(src))) ELSE "")

\* base64.RawURLEncoding.Encode: every three bytes become four characters
\* of six bits each; a last group of one or two bytes becomes two or three
\* characters.
RECURSIVE RawURLEncode(_)
RawURLEncode(src) ==
    IF Len(src) = 0 THEN ""
    ELSE LET b2 == IF Len(src) > 1 THEN src[2] ELSE 0
             b3 == IF Len(src) > 2 THEN src[3] ELSE 0
             val == (src[1] * 65536) + (b2 * 256) + b3
         IN  encodeURL[(val \div 262144) + 1]
                \o encodeURL[((val \div 4096) % 64) + 1]
                \o (IF Len(src) > 1 THEN encodeURL[((val \div 64) % 64) + 1] ELSE "")
                \o (IF Len(src) > 2 THEN encodeURL[(val % 64) + 1] ELSE "")
                \o (IF Len(src) > 3 THEN RawURLEncode(SubSeq(src, 4, Len(src))) ELSE "")

\* The identifiers a request can draw: the encodings of the random bytes.
TokenTable == [i \in DOMAIN RandomBytesTable |-> RawURLEncode(RandomBytesTable[i])]
Tokens == {TokenTable[i] : i \in 1..NumTokens}

(***************************************************************************)
(* The reports ffprobe can print: a sequence of streams.                   *)
(***************************************************************************)
Geometries ==
    {<<1920, 1080>>, <<1080, 1920>>, <<1000, 1000>>, <<1778, 1000>>,
     <<1779, 1000>>, <<563, 1000>>, <<1920, 0>>, <<0, 0>>}
AspectStrings == {"", "16:9", "9:16", "4:3"}
StreamsOf(geoms, dars) ==
    {[Width |-> g[1], Height |-> g[2], DisplayAspectRatio |-> d] :
        g \in geoms, d \in dars}
ReportsOf(streams) == UNION {[1..n -> streams] : n \in 0..MaxStreams}
\* every report up to MaxStreams streams
AllReports == ReportsOf(StreamsOf(Geometries, AspectStrings))
\* the reports the concurrent specification draws from: no stream, a
\* landscape geometry, a stream without height
FewReports ==
    {<<>>,
     <<[Width |-> 1920, Height |-> 1080, DisplayAspectRatio |-> ""]>>,
     <<[Width |-> 1920, Height |-> 0, DisplayAspectRatio |-> ""]>>}

(***************************************************************************)
(* Pure functions of the source.                                           *)
(***************************************************************************)
\* uuid.Parse
uuidParse(s) == [err |-> s = 0, id |-> s]

\* auth.GetBearerToken and auth.ValidateJWT, as the handler uses them
GetBearerToken(h) == [err |-> ~h.present, token |-> h.subject]
ValidateJWT(token) == [err |-> token = 0, userID |-> token]

\* mime.ParseMediaType: the media type in lower case without parameters, or
\* an error (no media type, or a malformed parameter).
ParseMediaType(v) ==
    CASE v = "video/mp4"              -> [mediaType |-> "video/mp4", err |-> FALSE]
      [] v = "Video/MP4"              -> [mediaType |-> "video/mp4", err |-> FALSE]
      [] v = "video/mp4; codecs=avc1" -> [mediaType |-> "video/mp4", err |-> FALSE]
      [] v = "video/mp4; codecs"      -> [mediaType |-> "video/mp4", err |-> TRUE]
      [] v = "video/quicktime"        -> [mediaType |-> "video/quicktime", err |-> FALSE]
      [] v = "image/png"              -> [mediaType |-> "image/png", err |-> FALSE]
      [] OTHER                        -> [mediaType |-> "", err |-> TRUE]

mediaTypeToVideoExtension(mediaType) ==
    CASE mediaType = "video/mp4"       -> "mp4"
      [] mediaType = "video/quicktime" -> "mov"
      [] OTHER                         -> ""

\* mutant: height over width
QuotientInverted(width, height) ==
    IF width # 0 THEN [kind |-> "finite", num |-> height, den |-> width]
    ELSE IF height # 0 THEN [kind |-> "inf", num |-> height, den |-> 0]
    ELSE [kind |-> "nan", num |-> 0, den |-> 0]

\* float64(width) / float64(height): a finite quotient, or for a zero
\* divisor an infinity or (0/0) a NaN. Go's float division never panics.
Quotient(width, height) ==
    IF height # 0 THEN [kind |-> "finite", num |-> width, den |-> height]
    ELSE IF width # 0 THEN [kind |-> "inf", num |-> width, den |-> 0]
    ELSE [kind |-> "nan", num |-> 0, den |-> 0]

\* math.Abs(a-b) <= float64EqualityThreshold for b = bn/bd, bd > 0. A
\* comparison with an infinity or a NaN on the left is false. The quotient
\* is compared exactly; float64 rounding could only matter for a quotient
\* within 1e-15 of the threshold, which no geometry of the model is.
almostEqual(a, bn, bd) ==
    /\ a.kind = "finite"
    /\ ThresholdDen * Abs(a.num * bd - bn * a.den) <= Abs(a.den) * bd

\* mutant: only the first stream's display_aspect_ratio is looked at
FirstStreamAspectString(streams) ==
    IF streams = <<>> THEN "" ELSE Head(streams).DisplayAspectRatio

\* the loop of getVideoAspectRatio over the streams: the first non-empty
\* display_aspect_ratio in report order, "" when there is none
RECURSIVE FirstAspectString(_)
FirstAspectString(streams) ==
    IF streams = <<>> THEN ""
    ELSE IF Head(streams).DisplayAspectRatio # ""
         THEN Head(streams).DisplayAspectRatio
         ELSE FirstAspectString(Tail(streams))

\* mutant: a report without streams is classified "other"
getVideoAspectRatioDefaultOther(run) ==
    IF run.err THEN [val |-> "", err |-> "ffprobe failed"]
    ELSE IF Len(run.Streams) = 0 THEN [val |-> "other", err |-> ""]
    ELSE IF FirstAspectString(run.Streams) # ""
         THEN [val |-> FirstAspectString(run.Streams), err |-> ""]
    ELSE IF almostEqual(Quotient(run.Streams[1].Width, run.Streams[1].Height), 16, 9)
         THEN [val |-> "16:9", err |-> ""]
    ELSE IF almostEqual(Quotient(run.Streams[1].Width, run.Streams[1].Height), 9, 16)
         THEN [val |-> "9:16", err |-> ""]
    ELSE [val |-> "other", err |-> ""]

\* getVideoAspectRatio after ffprobe ran: run is the outcome of cmd.Run and
\* json.Unmarshal ([err, Streams]).
getVideoAspectRatio(run) ==
    IF run.err THEN [val |-> "", err |-> "ffprobe failed"]
    ELSE IF Len(run.Streams) = 0 THEN [val |-> "", err |-> "no streams found"]
    ELSE IF FirstAspectString(run.Streams) # ""
         THEN [val |-> FirstAspectString(run.Streams), err |-> ""]
    ELSE LET width == run.Streams[1].Width
             height == run.Streams[1].Height
             aspectRatio == Quotient(width, height)
         IN  IF almostEqual(aspectRatio, 16, 9) THEN [val |-> "16:9", err |-> ""]
             ELSE IF almostEqual(aspectRatio, 9, 16) THEN [val |-> "9:16", err |-> ""]
             ELSE [val |-> "other", err |-> ""]

\* the switch of handlerUploadVideo on the aspect ratio
VideoPrefix(aspectRatio) ==
    CASE aspectRatio = "16:9" -> "landscape"
      [] aspectRatio = "9:16" -> "portrait"
      [] OTHER                -> "other"

\* os.CreateTemp("", "video-upload-*."+ext): the path for a drawn name
TempPath(name, ext) == <<"/tmp/video-upload-", name, ".", ext>>
\* processVideoForFastStart: filePath + ".processing"
OutputFilePath(filePath) == filePath \o <<".processing">>

\* fmt.Sprintf("%s/%s.%s", videoPrefix, s3VideoID, ext)
VideoKey(videoPrefix, s3VideoID, ext) == <<videoPrefix, "/", s3VideoID, ".", ext>>
\* fmt.Sprintf("%s,%s", cfg.s3Bucket, s3VideoKey)
CompositeRef(bucket, key) == bucket \o <<",">> \o key

\* strings.Split(s, sep): every piece between two separators
RECURSIVE SplitFrom(_, _, _)
SplitFrom(s, sep, cur) ==
    IF s = <<>> THEN <<cur>>
    ELSE IF Head(s) = sep THEN <<cur>> \o SplitFrom(Tail(s), sep, <<>>)
    ELSE SplitFrom(Tail(s), sep, Append(cur, Head(s)))
Split(s, sep) == SplitFrom(s, sep, <<>>)

\* generatePresignedURL: the URL the presign client returns
PresignedURL(bucket, key, minutes) ==
    <<"https://">> \o bucket \o <<".s3.amazonaws.com/">> \o key
        \o <<"?X-Amz-Expires-Minutes=", ToString(minutes)>>

\* dbVideoToSignedVideo; presignErr is the outcome of the presign call.
\* The video is passed by value: the caller's copy is what it returns.
dbVideoToSignedVideo(video, presignErr) ==
    IF video.VideoURL = Nil THEN [video |-> video, err |-> FALSE, presigned |-> FALSE]
    ELSE LET components == Split(Deref(video.VideoURL), ",")
         IN  IF Len(components) < 2
             THEN [video |-> video, err |-> FALSE, presigned |-> FALSE]
             ELSE IF presignErr
             THEN [video |-> video, err |-> TRUE, presigned |-> TRUE]
             ELSE [video |-> [video EXCEPT !.VideoURL =
                                Ptr(PresignedURL(components[1], components[2],
                                                 PresignMinutes))],
                   err |-> FALSE, presigned |-> TRUE]

(***************************************************************************)
(* State.                                                                  *)
(*   db   the record store: the VideoRecord of every video                 *)
(*   s3   the object store: the objects put, one per (Bucket, Key)         *)
(*   fs   the local filesystem: the files that exist, each with its path   *)
(*        and the request that wrote it                                    *)
(*   req  per request, the handler's position, locals, deferred calls,     *)
(*        response and the calls it made so far                            *)
(***************************************************************************)
VARIABLES db, s3, fs, req

vars == <<db, s3, fs, req>>

\* database.Video's zero value
NoVideo == [ID |-> 0, UserID |-> 0, VideoURL |-> Nil, ThumbnailURL |-> Nil]

InitReq ==
    [pc |-> "Authenticating", videoID |-> 0, userID |-> 0, dbVideo |-> NoVideo,
     mediaType |-> "", tempFile |-> <<>>, outData |-> Nil, aspectRatio |-> "",
     videoPrefix |-> "", processedFilePath |-> <<>>, s3VideoKey |-> <<>>,
     defers |-> <<>>, status |-> 0,
     body |-> [msg |-> "", video |-> NoVideo], calls |-> <<>>]

Init ==
    /\ db = [id \in {v.ID : v \in InitialVideos} |->
                CHOOSE v \in InitialVideos : v.ID = id]
    /\ s3 = {}
    /\ fs = {}
    /\ req = [r \in Reqs |-> InitReq]

Called(q, what) == [q EXCEPT !.calls = Append(@, what)]
Deferred(q, ds) == [q EXCEPT !.defers = @ \o ds]

\* mutant: every failure is reported as an internal error
respondWithInternalError(q, code, msg) ==
    [Called(q, "respond") EXCEPT
        !.status = StatusInternalServerError,
        !.body = [msg |-> msg, video |-> NoVideo], !.pc = "Returning"]

\* respondWithError / respondWithJSON: the response is written; the handler
\* then returns (pc "Returning" until Step runs its deferred calls).
respondWithError(q, code, msg) ==
    [Called(q, "respond") EXCEPT
        !.status = code, !.body = [msg |-> msg, video |-> NoVideo],
        !.pc = "Returning"]
respondWithJSON(q, code, video) ==
    [Called(q, "respond") EXCEPT
        !.status = code, !.body = [msg |-> "", video |-> video],
        !.pc = "Returning"]

\* mutant: a name is never seen as taken
ExistsNever(files, path) == FALSE

Exists(files, path) == \E f \in files : f.path = path

\* The deferred calls of a returning handler, last registered first:
\* os.Remove deletes the file of a path, Close leaves the files as they are.
RECURSIVE RunDefers(_, _)
RunDefers(defers, files) ==
    IF defers = <<>> THEN files
    ELSE LET d == defers[Len(defers)]
         IN  RunDefers(SubSeq(defers, 1, Len(defers) - 1),
                       IF d.op = "Remove"
                       THEN {f \in files : f.path # d.arg}
                       ELSE files)

\* the deferred calls in the order they run
RECURSIVE DeferCalls(_)
DeferCalls(defers) ==
    IF defers = <<>> THEN <<>>
    ELSE <<defers[Len(defers)].op>>
            \o DeferCalls(SubSeq(defers, 1, Len(defers) - 1))

\* The handler has returned: its deferred calls have run and its frame is
\* gone. What stays is the record of the finished request: who asked, the
\* media type it declared, the video it read, the probe report that failed
\* it, its response and its calls.
Returned(q) ==
    [q EXCEPT !.pc = "Done", !.calls = @ \o DeferCalls(q.defers),
              !.defers = <<>>, !.tempFile = <<>>, !.processedFilePath = <<>>,
              !.aspectRatio = "", !.videoPrefix = "", !.s3VideoKey = <<>>]

\* One step of request r's handler: r's locals become q and the files
\* become files; a step that responded returns, running the deferred calls.
Step(r, q, files) ==
    IF q.pc = "Returning"
    THEN /\ req' = [req EXCEPT ![r] = Returned(q)]
         /\ fs' = RunDefers(q.defers, files)
    ELSE /\ req' = [req EXCEPT ![r] = q]
         /\ fs' = files

\* Authenticating: the video identifier, the bearer token and its user.
Authenticating(r) ==
    /\ req[r].pc = "Authenticating"
    /\ \E videoIDString \in PathValues, header \in AuthHeaders :
         LET q == req[r]
             parsed == uuidParse(videoIDString)
             bearer == GetBearerToken(header)
             jwt == ValidateJWT(bearer.token)
         IN  Step(r,
                IF parsed.err
                THEN respondWithError(q, StatusBadRequest, "Invalid ID")
                ELSE IF bearer.err
                THEN respondWithError(q, StatusUnauthorized, "Couldn't find JWT")
                ELSE IF jwt.err
                THEN respondWithError(q, StatusUnauthorized, "Couldn't validate JWT")
                ELSE [q EXCEPT !.videoID = parsed.id, !.userID = jwt.userID,
                               !.pc = "Authorizing"],
                fs)
    /\ UNCHANGED <<db, s3>>

\* mutant: the ownership check is left out
OwnsVideoUnchecked(dbVideo, userID) == TRUE

\* dbVideo.UserID != userID, negated
OwnsVideo(dbVideo, userID) == dbVideo.UserID = userID

\* Authorizing: cfg.db.GetVideo and the ownership check.
Authorizing(r) ==
    /\ req[r].pc = "Authorizing"
    /\ \E dbErr \in BOOLEAN :
         LET q == Called(req[r], "GetVideo")
         IN  Step(r,
                IF dbErr \/ q.videoID \notin DOMAIN db
                THEN respondWithError(q, StatusNotFound, "Error getting video")
                ELSE IF ~OwnsVideo(db[q.videoID], q.userID)
                THEN respondWithError([q EXCEPT !.dbVideo = db[q.videoID]],
                                      StatusUnauthorized, "User does not own video")
                ELSE [q EXCEPT !.dbVideo = db[q.videoID], !.pc = "Validating"],
                fs)
    /\ UNCHANGED <<db, s3>>

\* mutant: every media type of the extension table is accepted
AcceptedByExtensionTable(mediaType) == mediaTypeToVideoExtension(mediaType) # ""

\* mediaType != "video/mp4", negated
AcceptedMediaType(mediaType) == mediaType = "video/mp4"

\* Validating: the multipart form, its "video" part and the declared media
\* type. form is what r.ParseMultipartForm and r.FormFile make of the body.
Validating(r) ==
    /\ req[r].pc = "Validating"
    /\ \E form \in {"ok", "malformed", "no video part"}, contentType \in ContentTypes :
         LET q == Called(req[r], "ParseMultipartForm")
             media == ParseMediaType(contentType)
             q1 == [Deferred(q, <<[op |-> "Close", arg |-> <<"formFile">>]>>)
                       EXCEPT !.mediaType = media.mediaType]
         IN  Step(r,
                IF form = "malformed"
                THEN respondWithError(q, StatusBadRequest, "Error parsing form")
                ELSE IF form = "no video part"
                THEN respondWithError(q, StatusBadRequest, "Unable to parse form file")
                ELSE IF media.err
                THEN respondWithError(q1, StatusBadRequest, "Error parsing media type")
                ELSE IF ~AcceptedMediaType(q1.mediaType)
                THEN respondWithError(q1, StatusBadRequest, "Invalid media type")
                ELSE [q1 EXCEPT !.pc = "Staging"],
                fs)
    /\ UNCHANGED <<db, s3>>

\* mutant: the staged file is closed but never removed
StagingDefersCloseOnly(path) == <<[op |-> "Close", arg |-> path]>>

\* defer os.Remove(tempFile.Name()); defer tempFile.Close()
StagingDefers(path) ==
    <<[op |-> "Remove", arg |-> path], [op |-> "Close", arg |-> path]>>

\* Staging: os.CreateTemp draws a name that no existing file has (it opens
\* with O_EXCL and draws again), then io.Copy fills the file.
Staging(r) ==
    /\ req[r].pc = "Staging"
    /\ LET q == Called(req[r], "CreateTemp")
           ext == mediaTypeToVideoExtension(q.mediaType)
       IN  \/ Step(r, respondWithError(q, StatusInternalServerError,
                                       "Error creating temp file"), fs)
           \/ \E name \in TempNames, copyErr \in BOOLEAN :
                LET path == TempPath(name, ext)
                    q1 == Called(Deferred([q EXCEPT !.tempFile = path],
                                          StagingDefers(path)), "Copy")
                IN  /\ ~Exists(fs, path)
                    /\ Step(r,
                          IF copyErr
                          THEN respondWithError(q1, StatusInternalServerError,
                                                "Error copying file to temp")
                          ELSE [q1 EXCEPT !.pc = "Inspecting"],
                          fs \cup {[path |-> path, by |-> r]})
    /\ UNCHANGED <<db, s3>>

\* Inspecting: ffprobe on the staged file, and the key prefix of its
\* aspect ratio. The report stays in outData until the next step.
InspectingFrom(r, reports) ==
    /\ req[r].pc = "Inspecting"
    /\ \E run \in [err : {TRUE}, Streams : {<<>>}]
                  \cup [err : {FALSE}, Streams : reports] :
         LET q == [Called(req[r], "ffprobe") EXCEPT !.outData = Ptr(run)]
             got == getVideoAspectRatio(run)
         IN  /\ ~Exists(fs, q.tempFile) => run.err
             /\ Step(r,
                   IF got.err # ""
                   THEN respondWithError(q, StatusInternalServerError,
                                         "Error getting video aspect ratio")
                   ELSE [q EXCEPT !.aspectRatio = got.val,
                                  !.videoPrefix = VideoPrefix(got.val),
                                  !.pc = "Transcoding"],
                   fs)
    /\ UNCHANGED <<db, s3>>

Inspecting(r) == InspectingFrom(r, FewReports)

\* defer os.Remove(processedFilePath)
TranscodingDefers(path) == <<[op |-> "Remove", arg |-> path]>>

\* Transcoding: processVideoForFastStart runs ffmpeg, which writes
\* filePath + ".processing"; then the handler opens that file. ffmpeg runs
\* without -y and without a terminal, so it refuses to overwrite an existing
\* output file and fails; otherwise it succeeds, or fails having written
\* nothing, or fails having written a part of its output.
Transcoding(r) ==
    /\ req[r].pc = "Transcoding"
    /\ LET q == [Called(req[r], "ffmpeg") EXCEPT !.outData = Nil]
           outputFilePath == OutputFilePath(q.tempFile)
           output == [path |-> outputFilePath, by |-> r]
           failed == respondWithError(q, StatusInternalServerError,
                                      "Error processing video for fast start")
       IN  IF Exists(fs, outputFilePath) \/ ~Exists(fs, q.tempFile)
           THEN Step(r, failed, fs)
           ELSE \/ \E partial \in BOOLEAN :
                     Step(r, failed, IF partial THEN fs \cup {output} ELSE fs)
                \/ \E openErr \in BOOLEAN :
                     LET q1 == Deferred([q EXCEPT !.processedFilePath = outputFilePath],
                                        TranscodingDefers(outputFilePath))
                     IN  Step(r,
                            IF openErr
                            THEN respondWithError(q1, StatusInternalServerError,
                                                  "Error opening processed file")
                            ELSE [Deferred(q1, <<[op |-> "Close",
                                                  arg |-> outputFilePath]>>)
                                     EXCEPT !.pc = "Uploading"],
                            fs \cup {output})
    /\ UNCHANGED <<db, s3>>

\* s3Client.PutObject: the object of (Bucket, Key) is created or replaced
PutObject(store, bucket, key, contentType, body) ==
    {o \in store : ~(o.Bucket = bucket /\ o.Key = key)}
        \cup {[Bucket |-> bucket, Key |-> key, ContentType |-> contentType,
               Body |-> body]}

\* mutant: a failed put is tried again with a new key
AfterPutRetrying(q, putErr) ==
    IF putErr THEN [q EXCEPT !.pc = "Uploading"] ELSE [q EXCEPT !.pc = "Persisting"]

\* mutant: the error of the put is ignored
AfterPutIgnoringError(q, putErr) == [q EXCEPT !.pc = "Persisting"]

\* if err != nil after PutObject: respond and return, else go on
AfterPut(q, putErr) ==
    IF putErr
    THEN respondWithError(q, StatusInternalServerError, "Error uploading video to S3")
    ELSE [q EXCEPT !.pc = "Persisting"]

\* KeyDerivation and Uploading: rand.Read, the URL-safe encoding and the
\* object key (all local to the request), then the put of the transcoded
\* file under that key.
Uploading(r) ==
    /\ req[r].pc = "Uploading"
    /\ LET q0 == Called(req[r], "rand.Read")
       IN  \/ /\ Step(r, respondWithError(q0, StatusInternalServerError,
                                          "Error generating thumbnail ID"), fs)
              /\ s3' = s3
           \/ \E s3VideoID \in Tokens, putErr \in BOOLEAN :
                LET ext == mediaTypeToVideoExtension(q0.mediaType)
                    q == Called([q0 EXCEPT !.s3VideoKey =
                                    VideoKey(q0.videoPrefix, s3VideoID, ext)],
                                "PutObject")
                IN  /\ Step(r, AfterPut(q, putErr), fs)
                    /\ s3' = IF putErr THEN s3
                             ELSE PutObject(s3, s3Bucket, q.s3VideoKey,
                                            q.mediaType, r)
    /\ UNCHANGED db

\* mutant: the record gets the presigned URL instead of the reference
WithSignedVideoURL(dbVideo, bucket, key) ==
    [dbVideo EXCEPT !.VideoURL = Ptr(PresignedURL(bucket, key, PresignMinutes))]

\* videoURL := "{bucket},{key}"; dbVideo.VideoURL = &videoURL
WithVideoURL(dbVideo, bucket, key) ==
    [dbVideo EXCEPT !.VideoURL = Ptr(CompositeRef(bucket, key))]

\* mutant: the update does not reach the store
UpdateVideoDropped(store, video) == store

\* cfg.db.UpdateVideo: the whole record is written
UpdateVideo(store, video) == [store EXCEPT ![video.ID] = video]

\* mutant: the error of the update is ignored, the handler signs and answers
UpdateFailedButAnswered(q) ==
    respondWithJSON(Called(q, "Presign"), StatusOK,
                    dbVideoToSignedVideo(q.dbVideo, FALSE).video)

\* if err != nil after UpdateVideo: respond and return
UpdateFailed(q) ==
    respondWithError(q, StatusInternalServerError, "Error updating video")

\* Persisting and Signing: the composite reference is written through to
\* the record; then the response carries the handler's copy of the record
\* with a presigned URL (presigning computes the URL locally).
Persisting(r) ==
    /\ req[r].pc = "Persisting"
    /\ LET q == [Called(req[r], "UpdateVideo") EXCEPT
                    !.dbVideo = WithVideoURL(@, s3Bucket, req[r].s3VideoKey)]
       IN  \/ /\ Step(r, UpdateFailed(q), fs)
              /\ db' = db
           \/ \E presignErr \in BOOLEAN :
                LET signed == dbVideoToSignedVideo(q.dbVideo, presignErr)
                    q1 == [(IF signed.presigned THEN Called(q, "Presign") ELSE q)
                              EXCEPT !.dbVideo = signed.video]
                IN  /\ db' = UpdateVideo(db, q.dbVideo)
                    /\ Step(r,
                          IF signed.err
                          THEN respondWithError(q1, StatusInternalServerError,
                                                "Error signing video URL")
                          ELSE respondWithJSON(q1, StatusOK, q1.dbVideo),
                          fs)
    /\ UNCHANGED s3

Next ==
    \E r \in Reqs :
        \/ Authenticating(r)
        \/ Authorizing(r)
        \/ Validating(r)
        \/ Staging(r)
        \/ Inspecting(r)
        \/ Transcoding(r)
        \/ Uploading(r)
        \/ Persisting(r)

Spec == Init /\ [][Next]_vars

(***************************************************************************)
(* handlerUploadThumbnail (src/handler_upload_thumbnail.go): the other     *)
(* handler that writes a VideoRecord back.                                 *)
(***************************************************************************)
\* cfg.assetsRoot and cfg.port
assetsRoot == <<"assets">>
port == <<"8091">>

\* The Content-Type of the multipart part named "thumbnail"; the handler
\* takes the header as it is.
ThumbnailContentTypes == {"image/png"}

\* The identifiers a thumbnail upload can draw: two encodings of random
\* bytes.
ThumbnailIDs == {TokenTable[1], TokenTable[2]}

mediaTypeToFileExtension(mediaType) ==
    CASE mediaType = "image/jpeg" -> "jpg"
      [] mediaType = "image/png"  -> "png"
      [] mediaType = "image/gif"  -> "gif"
      [] OTHER                    -> ""

\* fmt.Sprintf("%s/%s.%s", cfg.assetsRoot, thumbnailID, fileExt)
AssetPath(root, thumbnailID, fileExt) == root \o <<"/", thumbnailID, ".", fileExt>>
\* fmt.Sprintf("http://localhost:%s/%s", cfg.port, filePath)
ThumbnailURLOf(p, filePath) == <<"http://localhost:">> \o p \o <<"/">> \o filePath

\* The video identifier, the bearer token and its user.
ThumbAuthenticating(r) ==
    /\ req[r].pc = "Authenticating"
    /\ \E videoIDString \in PathValues, header \in AuthHeaders :
         LET q == req[r]
             parsed == uuidParse(videoIDString)
             bearer == GetBearerToken(header)
             jwt == ValidateJWT(bearer.token)
         IN  Step(r,
                IF parsed.err
                THEN respondWithError(q, StatusBadRequest, "Invalid ID")
                ELSE IF bearer.err
                THEN respondWithError(q, StatusUnauthorized, "Couldn't find JWT")
                ELSE IF jwt.err
                THEN respondWithError(q, StatusUnauthorized, "Couldn't validate JWT")
                ELSE [q EXCEPT !.videoID = parsed.id, !.userID = jwt.userID,
                               !.pc = "ThumbAuthorizing"],
                fs)
    /\ UNCHANGED <<db, s3>>

\* cfg.db.GetVideo and the ownership check.
ThumbAuthorizing(r) ==
    /\ req[r].pc = "ThumbAuthorizing"
    /\ \E dbErr \in BOOLEAN :
         LET q == Called(req[r], "GetVideo")
         IN  Step(r,
                IF dbErr \/ q.videoID \notin DOMAIN db
                THEN respondWithError(q, StatusNotFound, "Error getting video")
                ELSE IF db[q.videoID].UserID # q.userID
                THEN respondWithError([q EXCEPT !.dbVideo = db[q.videoID]],
                                      StatusUnauthorized, "User does not own video")
                ELSE [q EXCEPT !.dbVideo = db[q.videoID], !.pc = "ThumbStoring"],
                fs)
    /\ UNCHANGED <<db, s3>>

\* The form, the random identifier and the asset file: os.Create makes the
\* file or truncates the one of that path, io.Copy fills it. The file stays
\* to be served: it is no request's temporary file (by |-> 0).
ThumbStoring(r) ==
    /\ req[r].pc = "ThumbStoring"
    /\ LET q == Called(req[r], "ParseMultipartForm")
           q1 == Called(Deferred(q, <<[op |-> "Close", arg |-> <<"formFile">>]>>),
                        "rand.Read")
           q2 == Called(q1, "Create")
           q3 == Called(q2, "Copy")
       IN  \/ Step(r, respondWithError(q, StatusBadRequest, "Error parsing form"), fs)
           \/ Step(r, respondWithError(q, StatusBadRequest,
                                       "Unable to parse form file"), fs)
           \/ Step(r, respondWithError(q1, StatusInternalServerError,
                                       "Error generating thumbnail ID"), fs)
           \/ Step(r, respondWithError(q2, StatusInternalServerError,
                                       "Error creating file"), fs)
           \/ \E thumbnailID \in ThumbnailIDs, contentType \in ThumbnailContentTypes,
                  copyErr \in BOOLEAN :
                 LET filePath == AssetPath(assetsRoot, thumbnailID,
                                           mediaTypeToFileExtension(contentType))
                     written == {f \in fs : f.path # filePath}
                                   \cup {[path |-> filePath, by |-> 0]}
                 IN  IF copyErr
                     THEN Step(r, respondWithError(q3, StatusInternalServerError,
                                                   "Error copying file"), written)
                     ELSE Step(r, [q3 EXCEPT
                                      !.dbVideo.ThumbnailURL =
                                          Ptr(ThumbnailURLOf(port, filePath)),
                                      !.pc = "ThumbPersisting"], written)
    /\ UNCHANGED <<db, s3>>

\* The record the handler read, with the new thumbnail URL, is written back
\* whole and returned.
ThumbPersisting(r) ==
    /\ req[r].pc = "ThumbPersisting"
    /\ LET q == Called(req[r], "UpdateVideo")
       IN  \/ /\ Step(r, respondWithError(q, StatusInternalServerError,
                                          "Error updating video"), fs)
              /\ db' = db
           \/ /\ Step(r, respondWithJSON(q, StatusOK, q.dbVideo), fs)
              /\ db' = UpdateVideo(db, q.dbVideo)
    /\ UNCHANGED s3

\* Every request is a video upload or a thumbnail upload.
NextBoth ==
    \E r \in Reqs :
        \/ Authenticating(r)
        \/ Authorizing(r)
        \/ Validating(r)
        \/ Staging(r)
        \/ Inspecting(r)
        \/ Transcoding(r)
        \/ Uploading(r)
        \/ Persisting(r)
        \/ ThumbAuthenticating(r)
        \/ ThumbAuthorizing(r)
        \/ ThumbStoring(r)
        \/ ThumbPersisting(r)

SpecBoth == Init /\ [][NextBoth]_vars

\* One request alone, with every probe report up to MaxStreams streams.
InspectingEvery(r) == InspectingFrom(r, AllReports)

NextProbe ==
    \E r \in {1} :
        \/ Authenticating(r)
        \/ Authorizing(r)
        \/ Validating(r)
        \/ Staging(r)
        \/ InspectingEvery(r)
        \/ Transcoding(r)
        \/ Uploading(r)
        \/ Persisting(r)

SpecProbe == Init /\ [][NextProbe]_vars

(***************************************************************************)
(* dbVideoToSignedVideo on its own: a record that refers to a stored       *)
(* object of any bucket (without a comma) and any key is signed.           *)
(***************************************************************************)
MaxKeyLen == 3

Buckets == {s3Bucket, <<"b">>}
\* the keys the handler builds, and keys of up to MaxKeyLen pieces, a piece
\* being a comma or comma-free text
Keys ==
    {VideoKey(prefix, token, "mp4") :
        prefix \in {"landscape", "portrait", "other"}, token \in Tokens}
      \cup UNION {[1..n -> {"k", ","}] : n \in 1..MaxKeyLen}

InitDecode ==
    /\ \E bucket \in Buckets, key \in Keys :
          /\ s3 = PutObject({}, bucket, key, "video/mp4", 0)
          /\ db = [id \in {1} |->
                     WithVideoURL([ID |-> 1, UserID |-> 1, VideoURL |-> Nil,
                                   ThumbnailURL |-> Nil], bucket, key)]
    /\ fs = {}
    /\ req = [r \in Reqs |-> InitReq]

\* dbVideo, err = cfg.dbVideoToSignedVideo(ctx, dbVideo) on the stored
\* record, and the response.
Decoding(r) ==
    /\ req[r].pc = "Authenticating"
    /\ \E id \in DOMAIN db, presignErr \in BOOLEAN :
         LET signed == dbVideoToSignedVideo(db[id], presignErr)
             q == [(IF signed.presigned THEN Called(req[r], "Presign") ELSE req[r])
                      EXCEPT !.dbVideo = signed.video]
         IN  Step(r,
                IF signed.err
                THEN respondWithError(q, StatusInternalServerError,
                                      "Error signing video URL")
                ELSE respondWithJSON(q, StatusOK, q.dbVideo),
                fs)
    /\ UNCHANGED <<db, s3>>

NextDecode == \E r \in Reqs : Decoding(r)

SpecDecode == InitDecode /\ [][NextDecode]_vars

(***************************************************************************)
(* Properties.                                                             *)
(***************************************************************************)
HasCalled(q, what) == \E i \in 1..Len(q.calls) : q.calls[i] = what
\* the request has left the Validating step
Validated(q) ==
    q.pc \notin {"Authenticating", "Authorizing", "Validating"}
        /\ HasCalled(q, "ParseMultipartForm")
IsOutputPath(path) == path # <<>> /\ path[Len(path)] = ".processing"
IsStagedPath(path) ==
    path # <<>> /\ path[1] = "/tmp/video-upload-" /\ ~IsOutputPath(path)

\* C1: an upload whose media type, once parsed, is not video/mp4 (video/
\* quicktime included) has ended with status 400 and has made no put and
\* no presign call.
C1_UnsupportedMediaTypeRejected ==
    \A r \in Reqs :
        (Validated(req[r]) /\ req[r].mediaType # "video/mp4")
            => /\ req[r].pc = "Done"
               /\ req[r].status = StatusBadRequest
               /\ ~HasCalled(req[r], "PutObject")
               /\ ~HasCalled(req[r], "Presign")

C1_Witness ==
    \E r \in Reqs :
        /\ req[r].pc = "Done"
        /\ req[r].mediaType = "video/quicktime"
        /\ req[r].status = StatusBadRequest
        /\ req[r].body.msg = "Invalid media type"

\* C2: an upload by a user who does not own the record it read has ended
\* with status 401, having called nothing but GetVideo: no form was parsed,
\* no file staged, no probe or transcode run, no object put or presigned and
\* no record updated.
C2_ForeignUserRejectedBeforeIO ==
    \A r \in Reqs :
        (req[r].dbVideo.ID # 0 /\ req[r].dbVideo.UserID # req[r].userID)
            => /\ req[r].pc = "Done"
               /\ req[r].status = StatusUnauthorized
               /\ req[r].calls = <<"GetVideo", "respond">>
               /\ \A f \in fs : f.by # r

C2_Witness ==
    \E r \in Reqs :
        /\ req[r].pc = "Done"
        /\ req[r].dbVideo.ID # 0
        /\ req[r].dbVideo.UserID # req[r].userID
        /\ req[r].body.msg = "User does not own video"

\* the composite reference "{bucket},{prefix}/{token}.mp4", piece by piece
IsCompositeRef(url) ==
    \E prefix \in {"landscape", "portrait", "other"}, token \in Tokens :
        url = <<"tubely-bucket", ",", prefix, "/", token, ".", "mp4">>
\* a URL signed for 15 minutes
IsSignedURL(url) ==
    /\ Len(url) > 2
    /\ url[1] = "https://"
    /\ url[Len(url)] = "15"

\* C3: the record store only ever holds the unsigned composite reference
\* "{bucket},{key}", never a signed URL; a successful ingestion answers with
\* the URL signed for 15 minutes.
C3_RecordKeepsCompositeRef ==
    /\ \A id \in DOMAIN db :
          db[id].VideoURL # Nil
             => /\ IsCompositeRef(Deref(db[id].VideoURL))
                /\ ~IsSignedURL(Deref(db[id].VideoURL))
    /\ \A r \in Reqs :
          (req[r].pc = "Done" /\ req[r].status = StatusOK)
             => /\ req[r].body.video.VideoURL # Nil
                /\ IsSignedURL(Deref(req[r].body.video.VideoURL))

C3_Witness ==
    \E r \in Reqs :
        /\ req[r].pc = "Done"
        /\ req[r].status = StatusOK
        /\ IsSignedURL(Deref(req[r].body.video.VideoURL))
        /\ IsCompositeRef(Deref(db[req[r].dbVideo.ID].VideoURL))

\* the objects a stored reference resolves to: those of the bucket and key
\* that the reference splits into
ObjectsOf(url) ==
    {o \in s3 : /\ Len(Split(url, ",")) = 2
                /\ o.Bucket = Split(url, ",")[1]
                /\ o.Key = Split(url, ",")[2]}

\* C4: in every reachable state a record's stored-object reference, once
\* set, resolves to exactly one object that has been put; so a reference is
\* never written before its put succeeded.
C4_ReferenceResolvesToOneObject ==
    \A id \in DOMAIN db :
        db[id].VideoURL # Nil
            => Cardinality(ObjectsOf(Deref(db[id].VideoURL))) = 1

C4_Witness ==
    /\ \E id \in DOMAIN db : db[id].VideoURL # Nil
    /\ Cardinality(s3) > 1
    /\ \E r \in Reqs : req[r].pc = "Persisting"

\* C5: once a request has returned, no staged file that it created exists,
\* on whatever path it returned.
C5_StagedFileRemoved ==
    \A r \in Reqs :
        req[r].pc = "Done"
            => ~\E f \in fs : f.by = r /\ IsStagedPath(f.path)

C5_Witness ==
    \E r \in Reqs :
        /\ req[r].pc = "Done"
        /\ HasCalled(req[r], "Copy")
        /\ req[r].status = StatusInternalServerError
        /\ \E t \in Reqs :
              /\ req[t].pc = "Done"
              /\ HasCalled(req[t], "Copy")
              /\ req[t].status = StatusOK

\* C6 (as claimed): once a request that started transcoding has returned,
\* no file that it wrote remains at the transcoder's output path, also when
\* ffmpeg failed after creating its output.
C6_TranscoderOutputRemoved ==
    \A r \in Reqs :
        (req[r].pc = "Done" /\ HasCalled(req[r], "ffmpeg"))
            => ~\E f \in fs : f.by = r /\ IsOutputPath(f.path)

\* the probe report a request holds: the one of its last ffprobe run, until
\* the handler goes on to transcoding, and for good when it failed on it
Probed(q) == q.outData # Nil /\ ~Deref(q.outData).err
StreamsOfReq(q) == Deref(q.outData).Streams
HasAspectString(streams) ==
    \E i \in 1..Len(streams) : streams[i].DisplayAspectRatio # ""
FirstExplicit(streams) ==
    streams[CHOOSE i \in 1..Len(streams) :
               /\ streams[i].DisplayAspectRatio # ""
               /\ \A j \in 1..(i - 1) : streams[j].DisplayAspectRatio = ""]
        .DisplayAspectRatio

\* C7: when some stream of the report has a non-empty display_aspect_ratio,
\* the first such stream alone decides the key prefix ("16:9" landscape,
\* "9:16" portrait, anything else other), whatever the widths and heights.
C7_ExplicitStringDecides ==
    \A r \in Reqs :
        (Probed(req[r]) /\ HasAspectString(StreamsOfReq(req[r])))
            => /\ req[r].pc = "Transcoding"
               /\ req[r].videoPrefix =
                     CASE FirstExplicit(StreamsOfReq(req[r])) = "16:9" -> "landscape"
                       [] FirstExplicit(StreamsOfReq(req[r])) = "9:16" -> "portrait"
                       [] OTHER -> "other"

C7_Witness ==
    \E r \in Reqs :
        /\ Probed(req[r])
        /\ StreamsOfReq(req[r]) =
              <<[Width |-> 1920, Height |-> 1080, DisplayAspectRatio |-> ""],
                [Width |-> 1000, Height |-> 1000, DisplayAspectRatio |-> "9:16"]>>
        /\ req[r].videoPrefix = "portrait"

C9_ZeroHeightRejected ==
    \A r \in Reqs :
        (/\ Probed(req[r])
         /\ Len(StreamsOfReq(req[r])) > 0
         /\ ~HasAspectString(StreamsOfReq(req[r]))
         /\ StreamsOfReq(req[r])[1].Height = 0)
            => /\ req[r].pc = "Done"
               /\ req[r].status = StatusInternalServerError
               /\ ~HasCalled(req[r], "ffmpeg")
               /\ ~HasCalled(req[r], "PutObject")
               /\ ~HasCalled(req[r], "UpdateVideo")

\* C10: a report without streams makes getVideoAspectRatio fail with "no
\* streams found", and the request has ended with status 500 without
\* transcoding, object-store call or record update.
C10_NoStreamsRejected ==
    \A r \in Reqs :
        (Probed(req[r]) /\ Len(StreamsOfReq(req[r])) = 0)
            => /\ getVideoAspectRatio(Deref(req[r].outData)).err = "no streams found"
               /\ req[r].pc = "Done"
               /\ req[r].status = StatusInternalServerError
               /\ req[r].body.msg = "Error getting video aspect ratio"
               /\ ~HasCalled(req[r], "ffmpeg")
               /\ ~HasCalled(req[r], "PutObject")
               /\ ~HasCalled(req[r], "Presign")
               /\ ~HasCalled(req[r], "UpdateVideo")

C10_Witness ==
    \E r \in Reqs :
        /\ Probed(req[r])
        /\ Len(StreamsOfReq(req[r])) = 0
        /\ req[r].pc = "Done"
        /\ HasCalled(req[r], "ffprobe")

\* the key "{prefix}/{token}.mp4" of a classification, piece by piece, with
\* a token of 43 characters
IsKeyOf(key, aspectRatio) ==
    /\ Len(key) = 5
    /\ key[1] = (CASE aspectRatio = "16:9" -> "landscape"
                   [] aspectRatio = "9:16" -> "portrait"
                   [] OTHER -> "other")
    /\ key[2] = "/"
    /\ Len(key[3]) = 43
    /\ key[4] = "."
    /\ key[5] = "mp4"

\* C11: the put of a request stores an object under the bucket and the key
\* "{prefix}/{token}.mp4", prefix being the class of the aspect ratio found
\* for this upload and token having 43 characters; and the step that ends a
\* request in success has written "{bucket},{key}" with that same bucket
\* and key into the record.
C11_ReferenceNamesThePutKey ==
    [][\A r \in Reqs :
          /\ (req[r].pc = "Uploading" /\ req'[r].pc = "Persisting")
                => /\ IsKeyOf(req'[r].s3VideoKey, req[r].aspectRatio)
                   /\ \E o \in s3' : /\ o.Bucket = <<"tubely-bucket">>
                                     /\ o.Key = req'[r].s3VideoKey
                                     /\ o.Body = r
          /\ (req[r].pc = "Persisting" /\ req'[r].pc = "Done"
                 /\ req'[r].status = StatusOK)
                => /\ IsKeyOf(req[r].s3VideoKey, req[r].aspectRatio)
                   /\ db'[req[r].dbVideo.ID].VideoURL =
                         <<(<<"tubely-bucket", ",">> \o req[r].s3VideoKey)>>]_vars

C11_Witness ==
    \E r \in Reqs :
        /\ req[r].pc = "Done"
        /\ req[r].status = StatusOK
        /\ HasCalled(req[r], "PutObject")
        /\ Len(Deref(db[req[r].dbVideo.ID].VideoURL)) = 7
        /\ Deref(db[req[r].dbVideo.ID].VideoURL)[3] = "portrait"
        /\ Len(Deref(db[req[r].dbVideo.ID].VideoURL)[5]) = 43

\* C12: when the step that ends the Persisting of a request has not put the
\* request's reference into the record (the update failed), the request has
\* ended with status 500 without presigning, the record store and the
\* object store are as they were before the step, and the object that the
\* request put is still stored.
C12_FailedUpdateKeepsObjectAndRecord ==
    [][\A r \in Reqs :
          (/\ req[r].pc = "Persisting"
           /\ req'[r].pc = "Done"
           /\ db'[req[r].dbVideo.ID].VideoURL
                 # <<(<<"tubely-bucket", ",">> \o req[r].s3VideoKey)>>)
             => /\ req'[r].status = StatusInternalServerError
                /\ req'[r].body.msg = "Error updating video"
                /\ ~HasCalled(req'[r], "Presign")
                /\ db' = db
                /\ s3' = s3
                /\ \E o \in s3' : /\ o.Bucket = <<"tubely-bucket">>
                                  /\ o.Key = req[r].s3VideoKey]_vars

C12_Witness ==
    \E r \in Reqs :
        /\ req[r].pc = "Done"
        /\ req[r].body.msg = "Error updating video"
        /\ req[r].status = StatusInternalServerError
        /\ db[req[r].dbVideo.ID].VideoURL = Nil
        /\ \E o \in s3 : o.Body = r

\* C13 (as claimed): a request that presigned a stored reference and
\* answered carries the URL presigned for exactly the bucket and the key of
\* the stored object that the reference was built from, also when the key
\* has commas in it.
C13_DecodeRestoresBucketAndKey ==
    \A r \in Reqs :
        (req[r].pc = "Done" /\ req[r].status = StatusOK
            /\ HasCalled(req[r], "Presign"))
          => \E o \in s3 :
                /\ db[req[r].dbVideo.ID].VideoURL
                      = <<(o.Bucket \o <<",">> \o o.Key)>>
                /\ req[r].body.video.VideoURL
                      = <<(<<"https://">> \o o.Bucket \o <<".s3.amazonaws.com/">>
                             \o o.Key \o <<"?X-Amz-Expires-Minutes=", "15">>)>>

\* the call a finished request made last before it responded, "" for none
LastCallBeforeRespond(q) ==
    LET i == CHOOSE j \in 1..Len(q.calls) : q.calls[j] = "respond"
    IN  IF i = 1 THEN "" ELSE q.calls[i - 1]
\* the calls of a video ingestion in which every step succeeded
AllStepsCalls ==
    <<"GetVideo", "ParseMultipartForm", "CreateTemp", "Copy", "ffprobe",
      "ffmpeg", "rand.Read", "PutObject", "UpdateVideo", "Presign", "respond">>

\* C14: a finished video ingestion carries the status class of its cause:
\* 400 for a malformed identifier, form or media type, 401 for a missing or
\* invalid credential and for a foreign owner, 404 for a missing record, 500
\* for a failure of staging, probe, transcode, key generation, put, update
\* or presign; the step it stopped at admits that class; and 200 comes only
\* after every step was made and none failed.
C14_StatusClassOfCause ==
    \A r \in Reqs :
        req[r].pc = "Done"
          => /\ req[r].status =
                   CASE req[r].body.msg \in
                            {"Invalid ID", "Error parsing form",
                             "Unable to parse form file",
                             "Error parsing media type", "Invalid media type"} -> 400
                     [] req[r].body.msg \in
                            {"Couldn't find JWT", "Couldn't validate JWT",
                             "User does not own video"} -> 401
                     [] req[r].body.msg = "Error getting video" -> 404
                     [] req[r].body.msg \in
                            {"Error creating temp file", "Error copying file to temp",
                             "Error getting video aspect ratio",
                             "Error processing video for fast start",
                             "Error opening processed file",
                             "Error generating thumbnail ID",
                             "Error uploading video to S3",
                             "Error updating video", "Error signing video URL"} -> 500
                     [] req[r].body.msg = "" -> 200
                     [] OTHER -> 0
             /\ req[r].status \in
                   CASE LastCallBeforeRespond(req[r]) = "" -> {400, 401}
                     [] LastCallBeforeRespond(req[r]) = "GetVideo" -> {404, 401}
                     [] LastCallBeforeRespond(req[r]) = "ParseMultipartForm" -> {400}
                     [] LastCallBeforeRespond(req[r]) = "Presign" -> {500, 200}
                     [] OTHER -> {500}
             /\ req[r].status = 200
                   => /\ SubSeq(req[r].calls, 1, Len(AllStepsCalls)) = AllStepsCalls
                      /\ req[r].body.video.VideoURL # Nil

C14_Witness ==
    /\ \E r \in Reqs :
          /\ req[r].pc = "Done"
          /\ req[r].status = StatusUnauthorized
          /\ req[r].body.msg = "User does not own video"
    /\ \E r \in Reqs :
          /\ req[r].pc = "Done"
          /\ req[r].status = StatusInternalServerError
          /\ req[r].body.msg = "Error uploading video to S3"

\* the place of the first call of that name among the calls of a request
FirstCall(q, what) == CHOOSE i \in 1..Len(q.calls) : q.calls[i] = what

\* C15 (as claimed): a finished request that staged its upload has closed
\* and removed its files before it wrote its response, and none of its
\* files exists any more: neither the staged file nor the transcoder output.
C15_ReleasedBeforeResponse ==
    \A r \in Reqs :
        (req[r].pc = "Done" /\ HasCalled(req[r], "Copy"))
          => /\ \A i \in 1..Len(req[r].calls) :
                   req[r].calls[i] \in {"Close", "Remove"}
                      => i < FirstCall(req[r], "respond")
             /\ ~\E f \in fs : f.by = r

\* the calls of a request up to its response
CallsBeforeRespond(q) ==
    IF HasCalled(q, "respond")
    THEN SubSeq(q.calls, 1, FirstCall(q, "respond") - 1)
    ELSE q.calls
IsPrefix(a, b) == Len(a) <= Len(b) /\ a = SubSeq(b, 1, Len(a))
\* the number of calls a request has made when it is at a handler
\* position: those of every step before it, once each. KeyDerivation is
\* the first half of "Uploading", Signing the second half of "Persisting".
CallsMadeAt(pc) ==
    CASE pc = "Authenticating" -> 0
      [] pc = "Authorizing"    -> 0
      [] pc = "Validating"     -> 1
      [] pc = "Staging"        -> 2
      [] pc = "Inspecting"     -> 4
      [] pc = "Transcoding"    -> 5
      [] pc = "Uploading"      -> 6
      [] pc = "Persisting"     -> 8
\* the messages a request can fail with after a given last call
MessagesAfter(call) ==
    CASE call = "" -> {"Invalid ID", "Couldn't find JWT", "Couldn't validate JWT"}
      [] call = "GetVideo" -> {"Error getting video", "User does not own video"}
      [] call = "ParseMultipartForm" ->
            {"Error parsing form", "Unable to parse form file",
             "Error parsing media type", "Invalid media type"}
      [] call = "CreateTemp" -> {"Error creating temp file"}
      [] call = "Copy" -> {"Error copying file to temp"}
      [] call = "ffprobe" -> {"Error getting video aspect ratio"}
      [] call = "ffmpeg" -> {"Error processing video for fast start",
                             "Error opening processed file"}
      [] call = "rand.Read" -> {"Error generating thumbnail ID"}
      [] call = "PutObject" -> {"Error uploading video to S3"}
      [] call = "UpdateVideo" -> {"Error updating video"}
      [] call = "Presign" -> {"Error signing video URL", ""}

\* C16: a request at a step has made the calls of the steps before it, in
\* the order Authenticating, Authorizing, Validating, Staging, Inspecting,
\* Transcoding, KeyDerivation, Uploading, Persisting, Signing, each once
\* and no other, so that no step is repeated or revisited; a finished
\* request made an initial part of them and answers for the step it made
\* last; it is about to put only with its transcoder output at hand, about
\* to update only with its object stored, an object of it is stored only
\* after all steps up to the put, and it presigned only after the update.
C16_StepsInOrder ==
    \A r \in Reqs :
        /\ req[r].pc # "Done"
              => req[r].calls = SubSeq(AllStepsCalls, 1, CallsMadeAt(req[r].pc))
        /\ req[r].pc = "Done"
              => /\ IsPrefix(CallsBeforeRespond(req[r]),
                             SubSeq(AllStepsCalls, 1, Len(AllStepsCalls) - 1))
                 /\ req[r].body.msg \in MessagesAfter(LastCallBeforeRespond(req[r]))
        /\ req[r].pc = "Uploading"
              => \E f \in fs : f.by = r /\ f.path = req[r].processedFilePath
        /\ req[r].pc = "Persisting"
              => \E o \in s3 : o.Key = req[r].s3VideoKey
        /\ (\E o \in s3 : o.Body = r)
              => IsPrefix(SubSeq(AllStepsCalls, 1, 8), req[r].calls)
        /\ HasCalled(req[r], "Presign")
              => /\ IsPrefix(SubSeq(AllStepsCalls, 1, 10), req[r].calls)
                 /\ db[req[r].dbVideo.ID].VideoURL # Nil

C16_Witness ==
    /\ \E r \in Reqs :
          /\ req[r].pc = "Done"
          /\ CallsBeforeRespond(req[r]) = SubSeq(AllStepsCalls, 1, 10)
    /\ \E r \in Reqs :
          /\ req[r].pc = "Done"
          /\ req[r].body.msg = "Error processing video for fast start"
          /\ ~HasCalled(req[r], "PutObject")

\* C17: a step of a video ingestion in Authenticating .. Uploading, failing
\* or not, leaves every record as it is, stored-object reference and
\* thumbnail reference alike; the only step of an ingestion that writes a
\* record is the update in Persisting, made with the request's object stored.
C17_FailureBeforePersistingKeepsRecord ==
    [][\A r \in Reqs :
          /\ (/\ req'[r] # req[r]
              /\ req[r].pc \in {"Authenticating", "Authorizing", "Validating",
                                "Staging", "Inspecting", "Transcoding", "Uploading"})
                => db' = db
          /\ (req'[r] # req[r] /\ req[r].pc = "Persisting" /\ db' # db)
                => /\ \E o \in s3 : o.Key = req[r].s3VideoKey
                   /\ CallsBeforeRespond(req[r]) = SubSeq(AllStepsCalls, 1, 8)]_vars

C17_Witness ==
    /\ \E id \in DOMAIN db : db[id].ThumbnailURL # Nil /\ db[id].VideoURL = Nil
    /\ \E r \in Reqs :
          /\ req[r].pc = "Done"
          /\ req[r].body.msg = "Error uploading video to S3"
          /\ req[r].dbVideo.ThumbnailURL # Nil

\* the request is in its handler and has staged its upload
InFlightStaged(q) == q.pc # "Done" /\ q.tempFile # <<>>
\* the staged paths and the output paths of the requests in flight are all
\* different, and the files at them are those the request itself wrote
PathsApart(rq, files) ==
    /\ \A r, t \in Reqs :
          (r # t /\ InFlightStaged(rq[r]) /\ InFlightStaged(rq[t]))
            => /\ rq[r].tempFile # rq[t].tempFile
               /\ rq[r].tempFile \o <<".processing">> # rq[t].tempFile \o <<".processing">>
               /\ rq[r].tempFile # rq[t].tempFile \o <<".processing">>
    /\ \A r \in Reqs :
          InFlightStaged(rq[r])
            => /\ \E f \in files : f.path = rq[r].tempFile /\ f.by = r
               /\ \A f \in files :
                     f.path \in {rq[r].tempFile, rq[r].processedFilePath} => f.by = r
               /\ rq[r].processedFilePath # <<>>
                     => rq[r].processedFilePath = rq[r].tempFile \o <<".processing">>

\* C18: after every step the requests in flight have staged paths and output
\* paths that differ from each other's, the files at a request's paths are
\* its own, and the step of a request creates and deletes only files of
\* that request.
C18_RequestsKeepToTheirFiles ==
    [][/\ PathsApart(req', fs')
       /\ \A r \in Reqs :
             req'[r] # req[r]
               => \A f \in (fs \ fs') \cup (fs' \ fs) : f.by = r]_vars

C18_Witness ==
    \E r, t \in Reqs :
        /\ r # t
        /\ req[r].pc = "Uploading"
        /\ req[t].pc = "Persisting"
        /\ \E f \in fs : f.path = req[r].processedFilePath
        /\ \E f \in fs : f.path = req[t].processedFilePath

\* C19 (as claimed): when a video ingestion and a thumbnail upload of the
\* same record have both answered 200, the record holds the thumbnail URL
\* that the thumbnail upload answered with and the stored-object reference
\* whose signed form the ingestion answered with.
C19_BothUpdatesKept ==
    \A v, t \in Reqs :
        (/\ req[v].pc = "Done" /\ req[v].status = StatusOK
         /\ HasCalled(req[v], "PutObject")
         /\ req[t].pc = "Done" /\ req[t].status = StatusOK
         /\ HasCalled(req[t], "Create")
         /\ req[v].dbVideo.ID = req[t].dbVideo.ID)
          => /\ db[req[v].dbVideo.ID].ThumbnailURL = req[t].body.video.ThumbnailURL
             /\ db[req[v].dbVideo.ID].VideoURL # Nil
             /\ dbVideoToSignedVideo(db[req[v].dbVideo.ID], FALSE).video.VideoURL
                   = req[v].body.video.VideoURL

\* C20: the step in which a request presigns and does not answer 200 ends
\* it with status 500 and the signing error, while the record holds the
\* request's new reference "{bucket},{key}" and the object of that key is
\* stored: the object store is as before the step and nothing is undone.
C20_PresignFailureKeepsUpdate ==
    [][\A r \in Reqs :
          (/\ req[r].pc = "Persisting"
           /\ req'[r].pc = "Done"
           /\ HasCalled(req'[r], "Presign")
           /\ req'[r].status # StatusOK)
             => /\ req'[r].status = StatusInternalServerError
                /\ req'[r].body.msg = "Error signing video URL"
                /\ req'[r].body.video.VideoURL = Nil
                /\ db'[req[r].dbVideo.ID].VideoURL
                      = <<(<<"tubely-bucket", ",">> \o req[r].s3VideoKey)>>
                /\ s3' = s3
                /\ \E o \in s3' : /\ o.Bucket = <<"tubely-bucket">>
                                  /\ o.Key = req[r].s3VideoKey]_vars

C20_Witness ==
    \E r \in Reqs :
        /\ req[r].pc = "Done"
        /\ req[r].status = StatusInternalServerError
        /\ req[r].body.msg = "Error signing video URL"
        /\ db[req[r].dbVideo.ID].VideoURL # Nil
        /\ \E o \in s3 :
              db[req[r].dbVideo.ID].VideoURL = <<(o.Bucket \o <<",">> \o o.Key)>>

=============================================================================
